---- MODULE Spec2Model ----
(***************************************************************************)
(* A model of platform/platform.cpp: the recursive directory operations,   *)
(* the scoped path lookup and the life cycle of the three worker threads.  *)
(*                                                                         *)
(* A path string is modelled as the sequence of its components: "" is      *)
(* <<>>, "." is <<".">>, "a/b" is <<"a", "b">>.  The file system is a tree *)
(* below the current directory; a node of the tree is the normalised       *)
(* sequence of real names leading to it.                                   *)
(***************************************************************************)
EXTENDS Naturals, Integers, Sequences, FiniteSets, TLC

VARIABLES
  fs,        \* the tree: node -> file type, for every node that exists
  locked,    \* non-directory nodes whose deletion fails
  noStat,    \* nodes whose type query fails
  call,      \* the last finished call of a Platform operation
  m_writableDir, m_resourcesDir, m_settingsDir,  \* the three roots
  disk,      \* the full paths IsFileExistsByFullPath finds
  m_networkThread, m_fileThread, m_backgroundThread,  \* worker handles
  workers,   \* every WorkerThread created so far, by its number
  done,      \* the work units that have run
  pc,        \* where the controlling thread is
  errno,     \* the error number the last failed system call left
  hardware_concurrency  \* what thread::hardware_concurrency() reports

walkVars == <<fs, locked, noStat>>

dirVars == <<m_writableDir, m_resourcesDir, m_settingsDir>>

workerVars == <<m_networkThread, m_fileThread, m_backgroundThread, workers,
                done, pc>>

osVars == <<errno, hardware_concurrency>>

vars == <<fs, locked, noStat, call, m_writableDir, m_resourcesDir,
          m_settingsDir, disk, m_networkThread, m_fileThread,
          m_backgroundThread, workers, done, pc, errno,
          hardware_concurrency>>

-----------------------------------------------------------------------------
(* Bounds of the model *)

MaxNodes == 3

\* Nodes with a fault: an undeletable file, or a failing type query.
MaxFaults == 1

\* The longest scope specifier a lookup is tried with.
MaxScopeLen == 3

\* The calls of RunThreads that create workers.
MaxStarts == 2

\* The work units submitted.
MaxTasks == 2

\* The nodes of the trees whose listing order is looked at.
MaxOrderNodes == 5

\* The longest extension asked for, and the longest file name, in characters.
MaxExtLen == 4

MaxNameLen == 4

\* The files of the directory listed by extension.
MaxFiles == 2

\* The largest error number a failed system call leaves.
MaxErrno == 41

\* The largest core count the hardware query reports.
MaxCores == 3

-----------------------------------------------------------------------------
(* Names, file types and error kinds *)

Names == {"a", "b"}

PseudoNames == {".", ".."}

AllNames == Names \cup PseudoNames

FILE_TYPE_UNKNOWN == "FILE_TYPE_UNKNOWN"

FILE_TYPE_REGULAR == "FILE_TYPE_REGULAR"

FILE_TYPE_DIRECTORY == "FILE_TYPE_DIRECTORY"

FileTypes == {FILE_TYPE_UNKNOWN, FILE_TYPE_REGULAR, FILE_TYPE_DIRECTORY}

ERR_OK == "ERR_OK"

ERR_FILE_DOES_NOT_EXIST == "ERR_FILE_DOES_NOT_EXIST"

ERR_ACCESS_FAILED == "ERR_ACCESS_FAILED"

ERR_DIRECTORY_NOT_EMPTY == "ERR_DIRECTORY_NOT_EMPTY"

ERR_NAME_TOO_LONG == "ERR_NAME_TOO_LONG"

ERR_NOT_A_DIRECTORY == "ERR_NOT_A_DIRECTORY"

ERR_FILE_ALREADY_EXISTS == "ERR_FILE_ALREADY_EXISTS"

ERR_SYMLINK_LOOP == "ERR_SYMLINK_LOOP"

ERR_IO_ERROR == "ERR_IO_ERROR"

ERR_UNKNOWN == "ERR_UNKNOWN"

\* The error numbers of <cerrno> the file names, with their Linux values.
ENOENT == 2

EIO == 5

EACCES == 13

EEXIST == 17

ENOTDIR == 20

ENAMETOOLONG == 36

ENOTEMPTY == 39

ELOOP == 40

\* The longest path string the OS accepts, in components.  No path the walk
\* builds over a tree of MaxNodes nodes is longer than MaxNodes + 1.
MaxPathLen == MaxNodes + 2

-----------------------------------------------------------------------------
(* The OS shims the file consumes *)

\* The node above the current directory: it exists, and is not modelled.
Outside == <<"..">>

RECURSIVE Norm(_)
\* The node a path string names: "." stays, ".." goes up.
Norm(path) ==
  IF path = <<>> THEN <<>>
  ELSE LET up == Norm(SubSeq(path, 1, Len(path) - 1))
           c == path[Len(path)]
       IN IF up = Outside THEN Outside
          ELSE IF c = "." THEN up
          ELSE IF c = ".." THEN (IF up = <<>> THEN Outside
                                 ELSE SubSeq(up, 1, Len(up) - 1))
          ELSE Append(up, c)

IsPrefix(p, q) == Len(p) <= Len(q) /\ SubSeq(q, 1, Len(p)) = p

Children(node, tree) ==
  {q \in DOMAIN tree : Len(q) = Len(node) + 1 /\ IsPrefix(node, q)}

RemoveNode(node, tree) == [q \in (DOMAIN tree) \ {node} |-> tree[q]]

\* The type the node has; the current directory and the one above it are
\* directories.
NodeType(node, tree) ==
  IF node = <<>> \/ node = Outside THEN FILE_TYPE_DIRECTORY
  ELSE tree[node]

NodeExists(node, tree) ==
  node = <<>> \/ node = Outside \/ node \in DOMAIN tree

\* Platform::GetFileType: the error kind, and the type when it is ERR_OK.
GetFileType(path, tree) ==
  LET node == Norm(path) IN
  IF path = <<>> THEN [err |-> ERR_FILE_DOES_NOT_EXIST, type |-> FILE_TYPE_UNKNOWN]
  ELSE IF Len(path) > MaxPathLen
    THEN [err |-> ERR_NAME_TOO_LONG, type |-> FILE_TYPE_UNKNOWN]
  ELSE IF ~NodeExists(node, tree)
    THEN [err |-> ERR_FILE_DOES_NOT_EXIST, type |-> FILE_TYPE_UNKNOWN]
  ELSE IF node \in noStat
    THEN [err |-> ERR_ACCESS_FAILED, type |-> FILE_TYPE_UNKNOWN]
  ELSE [err |-> ERR_OK, type |-> NodeType(node, tree)]

\* Platform::GetFilesByRegExp(directory, ".*", out): the names of all the
\* entries of the directory, the pseudo-entries among them when the platform
\* yields them (env.pseudo), in the platform's order (env.order).
GetFilesByRegExp(directory, env, tree) ==
  LET node == Norm(directory)
      isDir == directory # <<>> /\ Len(directory) <= MaxPathLen
               /\ NodeExists(node, tree)
               /\ NodeType(node, tree) = FILE_TYPE_DIRECTORY
      real == IF node = Outside THEN {}
              ELSE {n \in Names : Append(node, n) \in DOMAIN tree}
      entries == IF ~isDir THEN {}
                 ELSE real \cup (IF env.pseudo THEN PseudoNames ELSE {})
  IN SelectSeq(env.order, LAMBDA n : n \in entries)

\* my::DeleteFileX: removes a non-directory; fails on a locked one.
DeleteFileX(path, tree) ==
  LET node == Norm(path)
      ok == /\ node \in DOMAIN tree
            /\ tree[node] # FILE_TYPE_DIRECTORY
            /\ node \notin locked
  IN [ok |-> ok, fs |-> IF ok THEN RemoveNode(node, tree) ELSE tree]

\* Platform::RmDir: removes an empty directory.
RmDir(dirName, tree) ==
  LET node == Norm(dirName)
      err == IF dirName = <<>> \/ node \notin DOMAIN tree
               THEN ERR_FILE_DOES_NOT_EXIST
             ELSE IF tree[node] # FILE_TYPE_DIRECTORY THEN ERR_NOT_A_DIRECTORY
             ELSE IF dirName[Len(dirName)] \in PseudoNames THEN ERR_ACCESS_FAILED
             ELSE IF Children(node, tree) # {} THEN ERR_DIRECTORY_NOT_EMPTY
             ELSE ERR_OK
  IN [err |-> err, fs |-> IF err = ERR_OK THEN RemoveNode(node, tree) ELSE tree]

\* my::JoinFoldersToPath and my::JoinPath, on component sequences.
JoinFoldersToPath(folder, file) == folder \o file

JoinPath(folder, file) == folder \o file

\* One primitive operation in the record of a call.
Op(name, path, ok) == [op |-> name, path |-> path, ok |-> ok]

-----------------------------------------------------------------------------
(* Platform::RmDirRecursively *)

IsSpecialDirName_OnlyDotDot(dirName) == dirName = <<"..">>

IsSpecialDirName_OnlyDot(dirName) == dirName = <<".">>

IsSpecialDirName(dirName) == dirName = <<".">> \/ dirName = <<"..">>

\* The refusal of lines 71-72.
RmDirRefuses(dirName) == dirName = <<>> \/ IsSpecialDirName(dirName)

\* "if (!ok) res = false", lines 88-89, 93-94 and 98-99.
AndInto(res, ok) == IF ~ok THEN FALSE ELSE res

\* Lines 98-101: the removal of dirName itself counts like every other.
FinalResult_IgnoreRmDir(res, err) == res

FinalResult(res, err) == AndInto(res, err = ERR_OK)

\* The entries the loop of line 78 still visits after one entry is done.
RestOfLoop_BreakOnFailure(allFiles, res) ==
  IF res THEN Tail(allFiles) ELSE <<>>

RestOfLoop(allFiles, res) == Tail(allFiles)

\* An entry is passed over whatever its type query returns.
SkipsEntry_Never(err) == FALSE

\* Lines 83-84: the entry whose type query fails is passed over.
SkipsEntry(err) == err # ERR_OK

RECURSIVE RmDirRecursively(_, _, _)
RECURSIVE RmEntries(_, _, _, _)

\* The loop of lines 78-96 over the entries left in allFiles.
\* st = [fs, ops, res].
RmEntries(dirName, allFiles, env, st) ==
  IF allFiles = <<>> THEN st
  ELSE
    LET file == <<Head(allFiles)>>
        path == JoinFoldersToPath(dirName, file)
        t == GetFileType(path, st.fs)
        ops1 == Append(st.ops, Op("GetFileType", path, t.err = ERR_OK))
        st1 ==
          IF SkipsEntry(t.err) THEN [st EXCEPT !.ops = ops1]
          ELSE IF t.type = FILE_TYPE_DIRECTORY THEN
            IF ~IsSpecialDirName(file)
            THEN LET r == RmDirRecursively(path, env, [fs |-> st.fs, ops |-> ops1])
                 IN [fs |-> r.fs, ops |-> r.ops, res |-> AndInto(st.res, r.res)]
            ELSE [st EXCEPT !.ops = ops1]
          ELSE LET d == DeleteFileX(path, st.fs)
               IN [fs |-> d.fs,
                   ops |-> Append(ops1, Op("DeleteFileX", path, d.ok)),
                   res |-> AndInto(st.res, d.ok)]
    IN RmEntries(dirName, RestOfLoop(allFiles, st1.res), env, st1)

\* Lines 69-102.  w = [fs, ops]; the result is [fs, ops, res].
RmDirRecursively(dirName, env, w) ==
  IF RmDirRefuses(dirName) THEN [fs |-> w.fs, ops |-> w.ops, res |-> FALSE]
  ELSE
    LET allFiles == GetFilesByRegExp(dirName, env, w.fs)
        st0 == [fs |-> w.fs,
                ops |-> Append(w.ops, Op("GetFilesByRegExp", dirName, TRUE)),
                res |-> TRUE]
        st1 == RmEntries(dirName, allFiles, env, st0)
        rd == RmDir(dirName, st1.fs)
    IN [fs |-> rd.fs,
        ops |-> Append(st1.ops, Op("RmDir", dirName, rd.err = ERR_OK)),
        res |-> FinalResult(st1.res, rd.err)]

-----------------------------------------------------------------------------
(* Platform::GetFilesByType and Platform::GetFilesRecursively *)

\* "typeMask & type", line 191: the types are one-bit flags, a mask is the
\* set of the flags it holds.
MaskHas(typeMask, type) == type \in typeMask

\* A failed type query ends the loop.
NextEntries_StopOnFailure(allFiles, err) ==
  IF err # ERR_OK THEN <<>> ELSE Tail(allFiles)

\* The range-for of line 186 goes on to the next entry, after the
\* "continue" of line 190 as after a full pass.
NextEntries(allFiles, err) == Tail(allFiles)

RECURSIVE ByTypeLoop(_, _, _, _, _)
\* The loop of lines 186-193 over the entries left in allFiles.
ByTypeLoop(directory, typeMask, allFiles, tree, outFiles) ==
  IF allFiles = <<>> THEN outFiles
  ELSE
    LET file == <<Head(allFiles)>>
        t == GetFileType(JoinFoldersToPath(directory, file), tree)
        out1 == IF t.err # ERR_OK THEN outFiles
                ELSE IF MaskHas(typeMask, t.type)
                  THEN Append(outFiles, [first |-> file, second |-> t.type])
                ELSE outFiles
    IN ByTypeLoop(directory, typeMask, NextEntries(allFiles, t.err), tree,
                  out1)

\* Lines 181-194: outFiles with the entries of the mask's types appended.
GetFilesByType(directory, typeMask, env, tree, outFiles) ==
  ByTypeLoop(directory, typeMask, GetFilesByRegExp(directory, env, tree),
             tree, outFiles)

\* A failed type query taken for a directory.
IsDirectory_TrueOnFailure(path, tree) ==
  LET t == GetFileType(path, tree)
  IN IF t.err # ERR_OK THEN TRUE ELSE t.type = FILE_TYPE_DIRECTORY

\* Lines 197-203.
IsDirectory(path, tree) ==
  LET t == GetFileType(path, tree)
  IN IF t.err # ERR_OK THEN FALSE ELSE t.type = FILE_TYPE_DIRECTORY

\* Line 225: the subdirectories the recursion leaves out.
SkipsSubdir_OnlyDot(subdir) == subdir = <<".">>

SkipsSubdir(subdir) == subdir = <<".">> \/ subdir = <<"..">>

\* The new path put before the paths found so far.
PushFront(filesList, path) == <<path>> \o filesList

\* filesList.push_back, line 215.
PushBack(filesList, path) == Append(filesList, path)

\* Lines 211-216: the full paths of the regular files of the directory.
RECURSIVE AppendFiles(_, _, _)
AppendFiles(directory, files, w) ==
  IF files = <<>> THEN w
  ELSE LET p == Head(files)
           w1 == [out |-> PushBack(w.out, JoinPath(directory, p.first)),
                  checks |-> w.checks /\ p.second = FILE_TYPE_REGULAR]
       IN AppendFiles(directory, Tail(files), w1)

RECURSIVE GetFilesRecursively(_, _, _, _)
RECURSIVE RecurseSubdirs(_, _, _, _, _)

\* Lines 221-229 over the subdirectories left in subdirs.
RecurseSubdirs(directory, subdirs, env, tree, w) ==
  IF subdirs = <<>> THEN w
  ELSE LET p == Head(subdirs)
           w1 == [w EXCEPT !.checks = @ /\ p.second = FILE_TYPE_DIRECTORY]
           w2 == IF SkipsSubdir(p.first) THEN w1
                 ELSE GetFilesRecursively(JoinPath(directory, p.first),
                                          env, tree, w1)
       IN RecurseSubdirs(directory, Tail(subdirs), env, tree, w2)

\* Lines 206-230.  w = [out, checks]: filesList, and whether every
\* CHECK_EQUAL passed.
GetFilesRecursively(directory, env, tree, w) ==
  LET files == GetFilesByType(directory, {FILE_TYPE_REGULAR}, env, tree, <<>>)
      w1 == AppendFiles(directory, files, w)
      subdirs == GetFilesByType(directory, {FILE_TYPE_DIRECTORY}, env, tree, <<>>)
  IN RecurseSubdirs(directory, subdirs, env, tree, w1)

-----------------------------------------------------------------------------
(* The walker's state machine *)

NoCall == [op |-> "none"]

\* The orders the listings of one directory come in: the names ascending or
\* descending, so that every two entries are met in both orders.
Orders == {<<".", "..", "a", "b">>, <<"b", "a", "..", ".">>}

Envs == [order : Orders, pseudo : BOOLEAN]

\* Every order a listing can come in: the permutations of all names.
AllOrders ==
  {o \in [1..Cardinality(AllNames) -> AllNames] :
     \A i, j \in 1..Cardinality(AllNames) : i # j => o[i] # o[j]}

AllEnvs == [order : AllOrders, pseudo : BOOLEAN]

\* The directory names the calls are tried on.
DirNameInputs ==
  {<<>>, <<".">>, <<"..">>} \cup {<<n>> : n \in Names} \cup DOMAIN fs

\* A handle that holds no worker.
NULL == 0

Idle == [at |-> "idle", k |-> 0]

\* No worker has been created.
NoWorkers ==
  /\ m_networkThread = NULL
  /\ m_fileThread = NULL
  /\ m_backgroundThread = NULL
  /\ workers = <<>>
  /\ done = {}
  /\ pc = Idle

\* The roots as the platform's constructor leaves them.  A string of the
\* lookup is the sequence of its characters.
DefaultDirs ==
  /\ m_writableDir = <<"w", "/">>
  /\ m_resourcesDir = <<"r", "/">>
  /\ m_settingsDir = <<"s", "/">>

\* No system call has failed; the machine has one core.
QuietOs ==
  /\ errno = 0
  /\ hardware_concurrency = 1

WalkInit ==
  /\ fs = <<>>
  /\ locked = {}
  /\ noStat = {}
  /\ call = NoCall
  /\ DefaultDirs
  /\ disk = {}
  /\ NoWorkers
  /\ QuietOs

\* A node of one of the given types appears below the current directory or
\* below a directory, in a tree of fewer than max nodes.  The entries of a
\* directory are named in the order of Names: "b" only beside "a".
EnvCreateUpTo(types, max) ==
  /\ call = NoCall
  /\ Cardinality(DOMAIN fs) < max
  /\ \E parent \in {<<>>} \cup {p \in DOMAIN fs : fs[p] = FILE_TYPE_DIRECTORY},
        n \in Names, type \in types :
       /\ Append(parent, n) \notin DOMAIN fs
       /\ (n = "b" => Append(parent, "a") \in DOMAIN fs)
       /\ fs' = [q \in DOMAIN fs \cup {Append(parent, n)} |->
                   IF q \in DOMAIN fs THEN fs[q] ELSE type]
  /\ UNCHANGED <<locked, noStat, call, dirVars, osVars, disk, workerVars>>

EnvCreate(types) == EnvCreateUpTo(types, MaxNodes)

\* A non-directory becomes undeletable.
EnvLock ==
  /\ call = NoCall
  /\ Cardinality(locked \cup noStat) < MaxFaults
  /\ \E p \in DOMAIN fs :
       /\ fs[p] # FILE_TYPE_DIRECTORY
       /\ p \notin locked \cup noStat
       /\ locked' = locked \cup {p}
  /\ UNCHANGED <<fs, noStat, call, dirVars, osVars, disk, workerVars>>

\* The type query of a node starts to fail.
EnvBreakStat ==
  /\ call = NoCall
  /\ Cardinality(locked \cup noStat) < MaxFaults
  /\ \E p \in DOMAIN fs :
       /\ p \notin locked \cup noStat
       /\ noStat' = noStat \cup {p}
  /\ UNCHANGED <<fs, locked, call, dirVars, osVars, disk, workerVars>>

CallRmDirRecursively ==
  /\ call = NoCall
  /\ \E dirName \in DirNameInputs, env \in Envs :
       LET r == RmDirRecursively(dirName, env, [fs |-> fs, ops |-> <<>>])
       IN /\ fs' = r.fs
          /\ call' = [op |-> "RmDirRecursively", arg |-> dirName, res |-> r.res,
                      ops |-> r.ops, pre |-> fs]
  /\ UNCHANGED <<locked, noStat, dirVars, osVars, disk, workerVars>>

\* A failed CHECK has ended the process.
Aborted ==
  \/ call.op = "ReadPathForFile" /\ call.kind = "CHECK"
  \/ pc.at = "aborted"

\* The caller takes the result; the file system stays as the call left it.
Return ==
  /\ call # NoCall
  /\ ~Aborted
  /\ call' = NoCall
  /\ UNCHANGED <<walkVars, osVars, dirVars, disk, workerVars>>

\* The walk tells a directory from everything else (line 86) and nothing
\* more, so its trees are made of directories and regular files.
RmTypes == {FILE_TYPE_REGULAR, FILE_TYPE_DIRECTORY}

RmNext ==
  \/ EnvCreate(RmTypes)
  \/ EnvLock
  \/ EnvBreakStat
  \/ CallRmDirRecursively
  \/ Return

SpecRm == WalkInit /\ [][RmNext]_vars

\* The directories the listing is tried on.
ListInputs == {<<".">>} \cup {<<n>> : n \in Names} \cup DOMAIN fs

CallGetFilesRecursively ==
  /\ call = NoCall
  /\ \E directory \in ListInputs, env \in AllEnvs :
       LET r == GetFilesRecursively(directory, env, fs,
                                    [out |-> <<>>, checks |-> TRUE])
       IN call' = [op |-> "GetFilesRecursively", arg |-> directory,
                   out |-> r.out, checks |-> r.checks]
  /\ UNCHANGED <<walkVars, osVars, dirVars, disk, workerVars>>

\* What outFiles holds before the call: nothing, or an entry of an earlier
\* call.
OutFilesInputs == {<<>>, <<[first |-> <<"a">>, second |-> FILE_TYPE_UNKNOWN]>>}

CallGetFilesByType ==
  /\ call = NoCall
  /\ \E directory \in ListInputs, typeMask \in SUBSET FileTypes,
        env \in Envs, outFiles \in OutFilesInputs :
       call' = [op |-> "GetFilesByType", arg |-> directory,
                mask |-> typeMask, before |-> outFiles,
                raw |-> GetFilesByRegExp(directory, env, fs),
                out |-> GetFilesByType(directory, typeMask, env, fs,
                                       outFiles)]
  /\ UNCHANGED <<walkVars, osVars, dirVars, disk, workerVars>>

CallIsDirectory ==
  /\ call = NoCall
  /\ \E path \in ListInputs \cup {<<>>} :
       call' = [op |-> "IsDirectory", arg |-> path,
                res |-> IsDirectory(path, fs)]
  /\ UNCHANGED <<walkVars, osVars, dirVars, disk, workerVars>>

ListNext ==
  \/ EnvCreate(FileTypes)
  \/ EnvBreakStat
  \/ CallGetFilesRecursively
  \/ CallGetFilesByType
  \/ CallIsDirectory
  \/ Return

SpecList == WalkInit /\ [][ListNext]_vars

\* The listing of deeper trees of directories and regular files, every type
\* query succeeding.
OrderNext ==
  \/ EnvCreateUpTo(RmTypes, MaxOrderNodes)
  \/ CallGetFilesRecursively
  \/ Return

SpecOrder == WalkInit /\ [][OrderNext]_vars

-----------------------------------------------------------------------------
(* Platform::ReadPathForFile and the setters of the roots *)

\* my::AddSlashIfNeeded.
AddSlashIfNeeded(path) ==
  IF path = <<>> \/ path[Len(path)] = "/" THEN path ELSE Append(path, "/")

\* Platform::IsFileExistsByFullPath.
IsFileExistsByFullPath(fullPath) == fullPath \in disk

ScopeChars == {"w", "r", "s", "f"}

\* Lines 119-122: the candidate of a recognized scope character.
ScopePath_ResourcesForWritable(c, file) ==
  CASE c = "w" -> m_resourcesDir \o file
    [] c = "r" -> m_resourcesDir \o file
    [] c = "s" -> m_settingsDir \o file
    [] c = "f" -> file

ScopePath(c, file) ==
  CASE c = "w" -> m_writableDir \o file
    [] c = "r" -> m_resourcesDir \o file
    [] c = "s" -> m_settingsDir \o file
    [] c = "f" -> file

\* Lines 111-112.
DefaultScope == <<"w", "r", "f">>

EffectiveScope(searchScope) ==
  IF searchScope = <<>> THEN DefaultScope ELSE searchScope

\* Line 129.
PossiblePaths_NoSettings ==
  m_writableDir \o <<"\n">> \o m_resourcesDir

PossiblePaths ==
  m_writableDir \o <<"\n">> \o m_resourcesDir \o <<"\n">> \o m_settingsDir

RECURSIVE ScopeLoop(_, _, _)
\* The loop of lines 115-127 from character i on, and lines 129-131 after it.
ScopeLoop(file, searchScope, i) ==
  IF i > Len(searchScope)
    THEN [kind |-> "FileAbsentException", value |-> PossiblePaths]
  ELSE IF searchScope[i] \notin ScopeChars
    THEN [kind |-> "CHECK", value |-> searchScope]
  ELSE LET fullPath == ScopePath(searchScope[i], file)
       IN IF IsFileExistsByFullPath(fullPath)
            THEN [kind |-> "return", value |-> fullPath]
          ELSE ScopeLoop(file, searchScope, i + 1)

\* Lines 109-132.
ReadPathForFile(file, searchScope) ==
  ScopeLoop(file, EffectiveScope(searchScope), 1)

\* The file names, the directories and the scope specifiers tried.
FileInputs == {<<"x">>}

DirInputs == {<<"w">>, <<"r", "/">>}

RECURSIVE SeqsUpTo(_, _)
SeqsUpTo(S, n) ==
  IF n = 0 THEN {<<>>}
  ELSE LET shorter == SeqsUpTo(S, n - 1)
       IN shorter \cup {Append(q, c) : q \in shorter, c \in S}

ScopeInputs == SeqsUpTo(ScopeChars \cup {"z"}, MaxScopeLen)

\* Lines 104-107.
SetSettingsDir ==
  /\ call = NoCall
  /\ \E path \in DirInputs : m_settingsDir' = AddSlashIfNeeded(path)
  /\ UNCHANGED <<walkVars, osVars, call, m_writableDir, m_resourcesDir, disk,
                 workerVars>>

\* Lines 232-235.
SetWritableDirForTests ==
  /\ call = NoCall
  /\ \E path \in DirInputs : m_writableDir' = AddSlashIfNeeded(path)
  /\ UNCHANGED <<walkVars, osVars, call, m_resourcesDir, m_settingsDir, disk,
                 workerVars>>

\* Lines 237-240.
SetResourceDir ==
  /\ call = NoCall
  /\ \E path \in DirInputs : m_resourcesDir' = AddSlashIfNeeded(path)
  /\ UNCHANGED <<walkVars, osVars, call, m_writableDir, m_settingsDir, disk,
                 workerVars>>

\* A file appears under one of the directories, or beside them.
EnvTouch ==
  /\ call = NoCall
  /\ \E file \in FileInputs, dir \in {m_writableDir, m_resourcesDir, m_settingsDir, <<>>} :
       /\ dir \o file \notin disk
       /\ disk' = disk \cup {dir \o file}
  /\ UNCHANGED <<walkVars, osVars, call, dirVars, workerVars>>

CallReadPathForFile ==
  /\ call = NoCall
  /\ \E file \in FileInputs, searchScope \in ScopeInputs :
       LET r == ReadPathForFile(file, searchScope)
       IN call' = [op |-> "ReadPathForFile", file |-> file,
                   searchScope |-> searchScope, kind |-> r.kind,
                   value |-> r.value,
                   dirs |-> [w |-> m_writableDir, r |-> m_resourcesDir,
                             s |-> m_settingsDir]]
  /\ UNCHANGED <<walkVars, osVars, dirVars, disk, workerVars>>

ReadNext ==
  \/ SetSettingsDir
  \/ SetWritableDirForTests
  \/ SetResourceDir
  \/ EnvTouch
  \/ CallReadPathForFile
  \/ Return

SpecRead == WalkInit /\ [][ReadNext]_vars

-----------------------------------------------------------------------------
(* Platform::GetFilesByExt *)

\* The characters of the extensions and of the file names.  "." is the one
\* among them that the pattern language reads as a wildcard.
ExtChars == {".", "m"}

NameChars == {"a", ".", "m"}

\* The pattern as the regular-expression engine reads it: a backslash makes
\* the next character a literal, "." stands for any character, "$" for the
\* end of the name, every other character for itself.
RECURSIVE Atoms(_)
Atoms(regexp) ==
  IF regexp = <<>> THEN <<>>
  ELSE IF Head(regexp) = "\\" /\ Len(regexp) >= 2
    THEN <<[kind |-> "literal", c |-> regexp[2]]>>
         \o Atoms(SubSeq(regexp, 3, Len(regexp)))
  ELSE IF Head(regexp) = "."
    THEN <<[kind |-> "any", c |-> "."]>> \o Atoms(Tail(regexp))
  ELSE IF Head(regexp) = "$"
    THEN <<[kind |-> "end", c |-> "$"]>> \o Atoms(Tail(regexp))
  ELSE <<[kind |-> "literal", c |-> Head(regexp)]>> \o Atoms(Tail(regexp))

\* The atoms match the name from position pos on.
RECURSIVE MatchAt(_, _, _)
MatchAt(atoms, name, pos) ==
  IF atoms = <<>> THEN TRUE
  ELSE LET a == Head(atoms) IN
       IF a.kind = "end"
         THEN pos = Len(name) + 1 /\ MatchAt(Tail(atoms), name, pos)
       ELSE /\ pos <= Len(name)
            /\ a.kind = "literal" => name[pos] = a.c
            /\ MatchAt(Tail(atoms), name, pos + 1)

\* regex_search: the pattern matches somewhere in the name.
RegexSearch(name, regexp) ==
  \E pos \in 1..(Len(name) + 1) : MatchAt(Atoms(regexp), name, pos)

\* The directory GetFilesByExt is tried on.
ExtDir == <<"d", "/">>

ExtNameInputs == SeqsUpTo(NameChars, MaxNameLen) \ {<<>>}

\* Platform::GetFilesByRegExp(directory, regexp, out) for any pattern: the
\* names of the directory's entries the pattern matches.
MatchingNames(directory, regexp) ==
  {name \in ExtNameInputs :
     directory \o name \in disk /\ RegexSearch(name, regexp)}

\* The orders the platform can list a set of names in.
Listings(names) ==
  {l \in [1..Cardinality(names) -> names] :
     \A i, j \in 1..Cardinality(names) : i # j => l[i] # l[j]}

\* Lines 174-175: the two assertions.
GetFilesByExtAssert(ext) == ext # <<>> /\ ext[1] = "."

\* Line 177: the pattern GetFilesByExt hands to GetFilesByRegExp.
ExtRegExp(ext) == <<"\\">> \o ext \o <<"$">>

ExtInputs == SeqsUpTo(ExtChars, MaxExtLen)

\* A file appears in the directory.
EnvTouchName ==
  /\ call = NoCall
  /\ Cardinality(disk) < MaxFiles
  /\ \E name \in ExtNameInputs :
       /\ ExtDir \o name \notin disk
       /\ disk' = disk \cup {ExtDir \o name}
  /\ UNCHANGED <<walkVars, osVars, call, dirVars, workerVars>>

\* Lines 171-178, called with an empty outFiles and an extension that
\* passes the assertions.
CallGetFilesByExt ==
  /\ call = NoCall
  /\ \E ext \in ExtInputs :
       /\ GetFilesByExtAssert(ext)
       /\ \E outFiles \in Listings(MatchingNames(ExtDir, ExtRegExp(ext))) :
            call' = [op |-> "GetFilesByExt", ext |-> ext, out |-> outFiles]
  /\ UNCHANGED <<walkVars, osVars, dirVars, disk, workerVars>>

ExtNext ==
  \/ EnvTouchName
  \/ CallGetFilesByExt
  \/ Return

SpecExt == WalkInit /\ [][ExtNext]_vars

-----------------------------------------------------------------------------
(* Platform::ErrnoToError and Platform::CpuCores *)

\* The switch without its ELOOP case.
ErrnoToError_NoLoopCase ==
  CASE errno = ENOENT -> ERR_FILE_DOES_NOT_EXIST
    [] errno = EACCES -> ERR_ACCESS_FAILED
    [] errno = ENOTEMPTY -> ERR_DIRECTORY_NOT_EMPTY
    [] errno = EEXIST -> ERR_FILE_ALREADY_EXISTS
    [] errno = ENAMETOOLONG -> ERR_NAME_TOO_LONG
    [] errno = ENOTDIR -> ERR_NOT_A_DIRECTORY
    [] errno = EIO -> ERR_IO_ERROR
    [] OTHER -> ERR_UNKNOWN

\* Lines 43-66: the switch over the process-wide errno.
ErrnoToError ==
  CASE errno = ENOENT -> ERR_FILE_DOES_NOT_EXIST
    [] errno = EACCES -> ERR_ACCESS_FAILED
    [] errno = ENOTEMPTY -> ERR_DIRECTORY_NOT_EMPTY
    [] errno = EEXIST -> ERR_FILE_ALREADY_EXISTS
    [] errno = ENAMETOOLONG -> ERR_NAME_TOO_LONG
    [] errno = ENOTDIR -> ERR_NOT_A_DIRECTORY
    [] errno = ELOOP -> ERR_SYMLINK_LOOP
    [] errno = EIO -> ERR_IO_ERROR
    [] OTHER -> ERR_UNKNOWN

\* The hardware value returned as it is.
CpuCores_Raw == hardware_concurrency

\* Lines 265-269.
CpuCores ==
  LET cores == hardware_concurrency
  IN IF cores > 0 THEN cores ELSE 1

\* Any error number is left behind, any core count is reported; 0 is the
\* count of a machine whose query gives no answer.
OsInit ==
  /\ fs = <<>>
  /\ locked = {}
  /\ noStat = {}
  /\ call = NoCall
  /\ DefaultDirs
  /\ disk = {}
  /\ NoWorkers
  /\ errno \in 0..MaxErrno
  /\ hardware_concurrency \in 0..MaxCores

CallErrnoToError ==
  /\ call = NoCall
  /\ call' = [op |-> "ErrnoToError", res |-> ErrnoToError]
  /\ UNCHANGED <<walkVars, osVars, dirVars, disk, workerVars>>

CallCpuCores ==
  /\ call = NoCall
  /\ call' = [op |-> "CpuCores", res |-> CpuCores]
  /\ UNCHANGED <<walkVars, osVars, dirVars, disk, workerVars>>

OsNext ==
  \/ CallErrnoToError
  \/ CallCpuCores
  \/ Return

SpecOs == OsInit /\ [][OsNext]_vars

-----------------------------------------------------------------------------
(* Platform::RunThreads, Platform::ShutdownThreads and base::WorkerThread *)

ThreadKinds == {"network", "file", "background"}

Handle(kind) ==
  CASE kind = "network" -> m_networkThread
    [] kind = "file" -> m_fileThread
    [] kind = "background" -> m_backgroundThread

Handles == <<m_networkThread, m_fileThread, m_backgroundThread>>

\* ASSERT: a failed assertion ends the process.
AssertionFailed == [at |-> "aborted", k |-> 0]

\* Line 285.
RunThreadsAssert_Missing == TRUE

RunThreadsAssert ==
  m_networkThread = NULL /\ m_fileThread = NULL /\ m_backgroundThread = NULL

\* Line 273.
ShutdownThreadsAssert ==
  m_networkThread # NULL /\ m_fileThread # NULL /\ m_backgroundThread # NULL

\* Lines 274-276: the workers shut down and joined, in this order.
JoinedThreads_NoBackground == <<"network", "file">>

JoinedThreads == <<"network", "file", "background">>

\* Lines 286-288: make_unique makes three workers that did not exist.
NewWorkerIds_Reused == <<1, 2, 3>>

NewWorkerIds == <<Len(workers) + 1, Len(workers) + 2, Len(workers) + 3>>

\* base::WorkerThread as constructed: its thread runs, its queue is empty.
NewWorker == [status |-> "running", queue |-> <<>>]

\* The work units submitted so far; they are numbered as they come.
Submitted ==
  done \cup UNION {{workers[w].queue[i] : i \in DOMAIN workers[w].queue} :
                     w \in DOMAIN workers}

Pending ==
  UNION {{workers[w].queue[i] : i \in DOMAIN workers[w].queue} :
           w \in DOMAIN workers}

WorkerCall(name) ==
  [op |-> name, before |-> Handles, workers |-> workers,
   submitted |-> Submitted, pending |-> Pending, returned |-> FALSE]

\* Lines 283-289.
RunThreads ==
  /\ pc = Idle
  /\ IF ~RunThreadsAssert
       THEN /\ pc' = AssertionFailed
            /\ call' = WorkerCall("RunThreads")
            /\ UNCHANGED <<m_networkThread, m_fileThread, m_backgroundThread,
                           workers, done>>
       ELSE /\ Len(workers) < 3 * MaxStarts
            /\ LET ids == NewWorkerIds
                   made == {ids[i] : i \in DOMAIN ids}
               IN /\ workers' = [w \in DOMAIN workers \cup made |->
                                   IF w \in made THEN NewWorker ELSE workers[w]]
                  /\ m_networkThread' = ids[1]
                  /\ m_fileThread' = ids[2]
                  /\ m_backgroundThread' = ids[3]
            /\ call' = [WorkerCall("RunThreads") EXCEPT !.returned = TRUE]
            /\ UNCHANGED <<done, pc>>
  /\ UNCHANGED <<walkVars, osVars, dirVars, disk>>

\* Lines 271-273: ShutdownThreads is entered.
ShutdownThreads ==
  /\ pc = Idle
  /\ call' = WorkerCall("ShutdownThreads")
  /\ pc' = IF ~ShutdownThreadsAssert THEN AssertionFailed
           ELSE [at |-> "shutdown", k |-> 1]
  /\ UNCHANGED <<walkVars, osVars, dirVars, disk, m_networkThread,
                 m_fileThread, m_backgroundThread, workers, done>>

\* WorkerThread::ShutdownAndJoin, first half: the worker takes no new work.
Shutdown ==
  /\ pc.at = "shutdown"
  /\ IF pc.k > Len(JoinedThreads)
       THEN /\ pc' = [at |-> "reset", k |-> 0]
            /\ UNCHANGED workers
       ELSE /\ workers' = [workers EXCEPT
                             ![Handle(JoinedThreads[pc.k])].status = "stopping"]
            /\ pc' = [at |-> "join", k |-> pc.k]
  /\ UNCHANGED <<walkVars, osVars, dirVars, disk, call, m_networkThread,
                 m_fileThread, m_backgroundThread, done>>

\* WorkerThread::ShutdownAndJoin, second half: blocks until the worker's
\* thread has ended.
Join ==
  /\ pc.at = "join"
  /\ workers[Handle(JoinedThreads[pc.k])].status = "exited"
  /\ pc' = [at |-> "shutdown", k |-> pc.k + 1]
  /\ UNCHANGED <<walkVars, osVars, dirVars, disk, call, m_networkThread,
                 m_fileThread, m_backgroundThread, workers, done>>

\* Lines 278-280: the handles ShutdownThreads resets.
ResetThreads_NoBackground == {"network", "file"}

ResetThreads == {"network", "file", "background"}

\* Lines 278-281: the three handles are released and ShutdownThreads returns.
Reset ==
  /\ pc.at = "reset"
  /\ m_networkThread' =
       IF "network" \in ResetThreads THEN NULL ELSE m_networkThread
  /\ m_fileThread' = IF "file" \in ResetThreads THEN NULL ELSE m_fileThread
  /\ m_backgroundThread' =
       IF "background" \in ResetThreads THEN NULL ELSE m_backgroundThread
  /\ call' = [call EXCEPT !.returned = TRUE]
  /\ pc' = Idle
  /\ UNCHANGED <<walkVars, osVars, dirVars, disk, workers, done>>

\* A work unit is handed to a worker that still takes work.
Submit ==
  /\ pc.at # "aborted"
  /\ Cardinality(Submitted) < MaxTasks
  /\ \E kind \in ThreadKinds :
       /\ Handle(kind) # NULL
       /\ workers[Handle(kind)].status = "running"
       /\ workers' = [workers EXCEPT ![Handle(kind)].queue =
                        Append(@, Cardinality(Submitted) + 1)]
  /\ UNCHANGED <<walkVars, osVars, dirVars, disk, call, m_networkThread,
                 m_fileThread, m_backgroundThread, done, pc>>

\* A worker runs the oldest work unit of its queue.
WorkerRun ==
  /\ pc.at # "aborted"
  /\ \E w \in DOMAIN workers :
       /\ workers[w].status # "exited"
       /\ workers[w].queue # <<>>
       /\ done' = done \cup {Head(workers[w].queue)}
       /\ workers' = [workers EXCEPT ![w].queue = Tail(@)]
  /\ UNCHANGED <<walkVars, osVars, dirVars, disk, call, m_networkThread,
                 m_fileThread, m_backgroundThread, pc>>

\* A worker told to shut down ends its thread once its queue is drained.
WorkerExit ==
  /\ pc.at # "aborted"
  /\ \E w \in DOMAIN workers :
       /\ workers[w].status = "stopping"
       /\ workers[w].queue = <<>>
       /\ workers' = [workers EXCEPT ![w].status = "exited"]
  /\ UNCHANGED <<walkVars, osVars, dirVars, disk, call, m_networkThread,
                 m_fileThread, m_backgroundThread, done, pc>>

WorkersNext ==
  \/ RunThreads
  \/ ShutdownThreads
  \/ Shutdown
  \/ Join
  \/ Reset
  \/ Submit
  \/ WorkerRun
  \/ WorkerExit

SpecWorkers == WalkInit /\ [][WorkersNext]_vars

-----------------------------------------------------------------------------
(* Claims about RmDirRecursively *)

RmCalled == call.op = "RmDirRecursively"

\* The nodes strictly below a node.
Below(node, tree) == {q \in DOMAIN tree : q # node /\ IsPrefix(node, q)}

IsDeletion(o) == o.op \in {"DeleteFileX", "RmDir"}

\* The call was on an existing directory below which exactly one file is
\* undeletable and nothing else is at fault.
OneLockedFile ==
  /\ RmCalled
  /\ ~RmDirRefuses(call.arg)
  /\ call.arg \in DOMAIN call.pre
  /\ call.pre[call.arg] = FILE_TYPE_DIRECTORY
  /\ Cardinality(locked \cap Below(call.arg, call.pre)) = 1
  /\ noStat \cap Below(call.arg, call.pre) = {}

\* C1: on a tree with exactly one undeletable file the call returns false,
\* and has deleted every other file and every subdirectory that does not
\* contain the undeletable file.
C1_BestEffort ==
  OneLockedFile =>
    /\ call.res = FALSE
    /\ \A q \in Below(call.arg, call.pre) :
         /\ (call.pre[q] # FILE_TYPE_DIRECTORY /\ q \notin locked)
              => q \notin DOMAIN fs
         /\ (call.pre[q] = FILE_TYPE_DIRECTORY
             /\ \A l \in locked : ~IsPrefix(q, l))
              => q \notin DOMAIN fs

\* C1's case: the deletion of the locked file failed, and an entry met
\* after it was deleted all the same.
C1_Witness ==
  /\ OneLockedFile
  /\ \E i, j \in DOMAIN call.ops :
       /\ i < j
       /\ call.ops[i].op = "DeleteFileX" /\ ~call.ops[i].ok
       /\ IsDeletion(call.ops[j]) /\ call.ops[j].ok

\* C2: called with "", "." or "..", the call returns false, performs no
\* listing, type query, deletion or removal, and leaves the tree as it was.
C2_RefusesSpecialNames ==
  (RmCalled /\ call.arg \in {<<>>, <<".">>, <<"..">>}) =>
    /\ call.res = FALSE
    /\ call.ops = <<>>
    /\ fs = call.pre

\* C2's case: "." refused while the current directory has entries.
C2_Witness ==
  /\ RmCalled
  /\ call.arg = <<".">>
  /\ call.pre # <<>>
  /\ call.res = FALSE

\* C3: for an accepted dirName the call returns true exactly when every
\* deletion it attempted (of a file, of a subdirectory, of dirName itself)
\* succeeded.
C3_TrueIffAllDeletionsSucceeded ==
  (RmCalled /\ ~RmDirRefuses(call.arg)) =>
    (call.res <=> \A i \in DOMAIN call.ops :
                    IsDeletion(call.ops[i]) => call.ops[i].ok)

\* C3's case: every deletion of the entries succeeded and only the removal
\* of dirName itself failed.
C3_Witness ==
  /\ RmCalled
  /\ ~RmDirRefuses(call.arg)
  /\ call.res = FALSE
  /\ Len(call.ops) > 2
  /\ \A i \in DOMAIN call.ops :
       (IsDeletion(call.ops[i]) /\ ~call.ops[i].ok) <=> i = Len(call.ops)
  /\ \E i \in DOMAIN call.ops : call.ops[i].op = "DeleteFileX"

\* An operation that lists or removes, and so acts on the tree.
Acts(o) == o.op \in {"GetFilesByRegExp", "DeleteFileX", "RmDir"}

RmAccepted == RmCalled /\ ~RmDirRefuses(call.arg)

\* C17: an entry whose type query fails is neither deleted nor recursed
\* into; the walk goes on to every other entry of the directory; and the
\* removal of a listed directory is attempted all the same, after the
\* attempts on all its entries.
C17_FailedQuerySkipsOnlyTheEntry ==
  RmAccepted =>
    /\ \A i, j \in DOMAIN call.ops :
         (/\ call.ops[i].op = "GetFileType" /\ ~call.ops[i].ok
          /\ Acts(call.ops[j]))
         => ~IsPrefix(call.ops[i].path, call.ops[j].path)
    /\ \A i \in DOMAIN call.ops :
         call.ops[i].op = "GetFilesByRegExp" =>
           LET d == call.ops[i].path IN
           /\ \A c \in Children(d, call.pre) :
                \E j \in DOMAIN call.ops :
                  /\ i < j
                  /\ call.ops[j].op = "GetFileType"
                  /\ call.ops[j].path = c
           /\ \E k \in DOMAIN call.ops :
                /\ i < k
                /\ call.ops[k].op = "RmDir" /\ call.ops[k].path = d
                /\ \A j \in DOMAIN call.ops :
                     (IsPrefix(d, call.ops[j].path) /\ call.ops[j].path # d)
                     => (i < j /\ j < k)

\* The type query of one entry failed, an entry met after it was deleted,
\* and the removal of dirName was attempted last, in vain.
C17_Witness ==
  /\ RmAccepted
  /\ \E i, j \in DOMAIN call.ops :
       /\ i < j
       /\ call.ops[i].op = "GetFileType" /\ ~call.ops[i].ok
       /\ call.ops[i].path \in DOMAIN fs
       /\ call.ops[j].op = "DeleteFileX" /\ call.ops[j].ok
  /\ call.ops[Len(call.ops)] = Op("RmDir", call.arg, FALSE)

\* C20: the call never acts outside the subtree of dirName.  Every listing,
\* deletion and removal is of dirName or of a path below it that goes
\* through no "." and no ".."; every node outside the subtree, the parent
\* of dirName and its other children among them, is after the call what it
\* was before; and the call creates nothing.
C20_TouchesOnlyTheSubtree ==
  RmCalled =>
    /\ \A i \in DOMAIN call.ops :
         Acts(call.ops[i]) =>
           /\ IsPrefix(call.arg, call.ops[i].path)
           /\ \A k \in (Len(call.arg) + 1)..Len(call.ops[i].path) :
                call.ops[i].path[k] \notin PseudoNames
    /\ \A q \in DOMAIN call.pre :
         (RmDirRefuses(call.arg) \/ ~IsPrefix(call.arg, q))
         => (q \in DOMAIN fs /\ fs[q] = call.pre[q])
    /\ DOMAIN fs \subseteq DOMAIN call.pre

\* A directory with an entry was removed whole, its listing yielded "..",
\* and the node beside it is still there.
C20_Witness ==
  /\ RmAccepted
  /\ call.res
  /\ Below(call.arg, call.pre) # {}
  /\ call.arg \notin DOMAIN fs
  /\ \E i \in DOMAIN call.ops :
       call.ops[i] = Op("GetFileType", Append(call.arg, ".."), TRUE)
  /\ \E q \in DOMAIN fs : Len(q) = Len(call.arg) /\ q # call.arg

-----------------------------------------------------------------------------
(* Claims about GetFilesRecursively *)

ListCalled == call.op = "GetFilesRecursively"

\* The listing was of a directory below which every type query succeeds.
ListOfSoundTree ==
  /\ ListCalled
  /\ Norm(call.arg) \in DOMAIN fs \cup {<<>>}
  /\ NodeType(Norm(call.arg), fs) = FILE_TYPE_DIRECTORY
  /\ noStat \cap Below(Norm(call.arg), fs) = {}

\* The full paths of the regular files below the listed directory.
RegularPathsBelow(directory) ==
  {JoinPath(directory, SubSeq(q, Len(Norm(directory)) + 1, Len(q))) :
     q \in {r \in Below(Norm(directory), fs) : fs[r] = FILE_TYPE_REGULAR}}

\* C10: the listing holds exactly the full paths of the regular files at any
\* depth below the root, each once, whatever the order of the raw listing;
\* no path of a directory and no path through "." or "..".
C10_ListsExactlyRegularFiles ==
  ListOfSoundTree =>
    /\ {call.out[i] : i \in DOMAIN call.out} = RegularPathsBelow(call.arg)
    /\ \A i, j \in DOMAIN call.out : i # j => call.out[i] # call.out[j]
    /\ \A i \in DOMAIN call.out :
         /\ GetFileType(call.out[i], fs).type = FILE_TYPE_REGULAR
         /\ \A k \in (Len(call.arg) + 1)..Len(call.out[i]) :
              call.out[i][k] \notin PseudoNames
    /\ call.checks

\* C10's case: a regular file in the root and one in a subdirectory, beside
\* a directory, all met by the listing.
C10_Witness ==
  /\ ListOfSoundTree
  /\ \E i, j \in DOMAIN call.out :
       /\ Len(call.out[i]) = Len(call.arg) + 1
       /\ Len(call.out[j]) = Len(call.arg) + 2
  /\ Len(call.out) = 2

\* The directory the path's file stands in.
DirOf(path) == SubSeq(path, 1, Len(path) - 1)

\* The path leads into the subdirectory its first len components name.
Inside(path, len) == len < Len(path)

\* C18: in the listing the files standing directly in a directory come
\* before every path from that directory's subdirectories, and the paths
\* from one subdirectory's subtree stand together, no path from outside
\* between two of them: a depth-first order.
C18_FilesBeforeSubdirsDepthFirst ==
  ListCalled =>
    /\ \A i, j \in DOMAIN call.out :
         (/\ IsPrefix(DirOf(call.out[j]), call.out[i])
          /\ Len(call.out[i]) > Len(call.out[j])) => j < i
    /\ \A i, j, k \in DOMAIN call.out :
         \A len \in (Len(call.arg) + 1)..Len(call.out[i]) :
           (/\ i < k /\ k < j
            /\ Inside(call.out[i], len) /\ Inside(call.out[j], len)
            /\ SubSeq(call.out[i], 1, len) = SubSeq(call.out[j], 1, len))
           => (/\ Inside(call.out[k], len)
               /\ SubSeq(call.out[k], 1, len) = SubSeq(call.out[i], 1, len))

\* Two subdirectories were listed, the first with two files and the second
\* with one: the two paths of the first stand together before the third.
C18_Witness ==
  /\ ListCalled
  /\ Len(call.out) = 3
  /\ \A i \in 1..3 : Len(call.out[i]) = Len(call.arg) + 2
  /\ DirOf(call.out[1]) = DirOf(call.out[2])
  /\ DirOf(call.out[2]) # DirOf(call.out[3])

-----------------------------------------------------------------------------
(* Claims about GetFilesByType and IsDirectory *)

ByTypeCalled == call.op = "GetFilesByType"

PseudoEntry(p) == p.first = <<".">> \/ p.first = <<"..">>

\* C11: no (name, type) entry the listing operations pass upward is named
\* "." or "..": no pair GetFilesByType returns has one of the two names,
\* even when the raw listing yields them and the mask includes Directory,
\* and no path GetFilesRecursively returns goes through one of them.
C11_NoPseudoEntryPassedUpward ==
  /\ ByTypeCalled => \A i \in DOMAIN call.out : ~PseudoEntry(call.out[i])
  /\ ListCalled =>
       \A i \in DOMAIN call.out :
         \A k \in (Len(call.arg) + 1)..Len(call.out[i]) :
           call.out[i][k] \notin PseudoNames

\* The type query GetFilesByType made for the entry.
EntryQuery(name) == GetFileType(JoinFoldersToPath(call.arg, <<name>>), fs)

\* The entry's query succeeded and its type is one of the mask's.
Kept(name) ==
  /\ EntryQuery(name).err = ERR_OK
  /\ EntryQuery(name).type \in call.mask

\* The entries of the raw listing that are kept, in the listing's order,
\* each with its type.
KeptEntries ==
  LET kept == SelectSeq(call.raw, Kept)
  IN [i \in 1..Len(kept) |->
        [first |-> <<kept[i]>>, second |-> EntryQuery(kept[i]).type]]

\* C14: GetFilesByType appends to outFiles exactly the entries of the raw
\* listing whose type query succeeds and whose type is in typeMask, each
\* with its type, in the order of the listing; an entry whose query fails
\* is dropped and the entries after it are classified all the same.
C14_AppendsExactlyKeptEntries ==
  ByTypeCalled =>
    /\ Len(call.out) = Len(call.before) + Len(KeptEntries)
    /\ SubSeq(call.out, 1, Len(call.before)) = call.before
    /\ \A i \in DOMAIN KeptEntries :
         call.out[Len(call.before) + i] = KeptEntries[i]

\* An entry whose query fails stands in the listing before one that is
\* kept, outFiles held an entry before the call, and an entry of a type
\* outside the mask was left out.
C14_Witness ==
  /\ ByTypeCalled
  /\ call.before # <<>>
  /\ \E i, j \in DOMAIN call.raw :
       /\ i < j
       /\ EntryQuery(call.raw[i]).err # ERR_OK
       /\ Kept(call.raw[j])
  /\ \E i \in DOMAIN call.raw :
       /\ EntryQuery(call.raw[i]).err = ERR_OK
       /\ ~Kept(call.raw[i])
  /\ Len(call.out) > Len(call.before)

IsDirCalled == call.op = "IsDirectory"

\* C13: IsDirectory is true exactly when the path's type query succeeds and
\* reports a directory; it is false for a path of another type and false
\* for a path whose query fails, be it a directory or not.
C13_IsDirectoryIffQueriedDirectory ==
  IsDirCalled =>
    LET t == GetFileType(call.arg, fs) IN
    /\ call.res <=> (t.err = ERR_OK /\ t.type = FILE_TYPE_DIRECTORY)
    /\ t.err = ERR_OK /\ t.type # FILE_TYPE_DIRECTORY => ~call.res
    /\ t.err # ERR_OK => ~call.res

\* A directory whose type query fails is reported as no directory.
C13_Witness ==
  /\ IsDirCalled
  /\ call.arg \in DOMAIN fs
  /\ fs[call.arg] = FILE_TYPE_DIRECTORY
  /\ call.arg \in noStat
  /\ ~call.res

-----------------------------------------------------------------------------
(* Claims about ReadPathForFile *)

ReadCalled == call.op = "ReadPathForFile"

\* The specifier the call searched: the given one, or the default "wrf"
\* standing for an empty one.
Searched == IF call.searchScope = <<>> THEN <<"w", "r", "f">> ELSE call.searchScope

Recognized(scope) == \A i \in DOMAIN scope : scope[i] \in {"w", "r", "s", "f"}

\* The candidate of position i of the searched specifier, from the roots as
\* they were at the call.
Candidate(i) ==
  LET c == Searched[i] IN
  IF c = "w" THEN call.dirs.w \o call.file
  ELSE IF c = "r" THEN call.dirs.r \o call.file
  ELSE IF c = "s" THEN call.dirs.s \o call.file
  ELSE call.file

Hits == {i \in DOMAIN Searched : Searched[i] \in {"w", "r", "s", "f"}
                                  /\ Candidate(i) \in disk}

\* C4: with a specifier of recognized characters, the call returns the
\* candidate of the first character, left to right, whose candidate exists.
C4_FirstExistingCandidate ==
  (ReadCalled /\ Recognized(Searched) /\ Hits # {}) =>
    /\ call.kind = "return"
    /\ \E i \in Hits : /\ \A j \in Hits : i <= j
                       /\ call.value = Candidate(i)

\* C4's case: "wrf", the file under the writable root and under the
\* resource root, two different places; the writable one is returned.
C4_Witness ==
  /\ ReadCalled
  /\ call.searchScope = <<"w", "r", "f">>
  /\ call.dirs.w # call.dirs.r
  /\ call.dirs.w \o call.file \in disk
  /\ call.dirs.r \o call.file \in disk
  /\ call.kind = "return"
  /\ call.value = call.dirs.w \o call.file

\* C5, as claimed: every call whose specifier holds an unrecognized
\* character ends in the fatal check failure, wherever the character stands.
C5_BadCharAlwaysFatal ==
  (ReadCalled /\ ~Recognized(call.searchScope)) => call.kind = "CHECK"

\* C6: with a valid specifier none of whose candidates exists, the call
\* returns no path: it raises FileAbsentException, whose diagnostic lists
\* the writable, resource and settings roots, and the roots stay as set.
C6_AbsentWhenNoCandidate ==
  (ReadCalled /\ Recognized(Searched) /\ Hits = {}) =>
    /\ call.kind = "FileAbsentException"
    /\ call.value = call.dirs.w \o <<"\n">> \o call.dirs.r \o <<"\n">> \o call.dirs.s
    /\ m_writableDir = call.dirs.w
    /\ m_resourcesDir = call.dirs.r
    /\ m_settingsDir = call.dirs.s

\* C6's case: the file exists, but under none of the roots searched.
C6_Witness ==
  /\ ReadCalled
  /\ Recognized(Searched)
  /\ Len(call.searchScope) >= 2
  /\ Hits = {}
  /\ disk # {}
  /\ call.kind = "FileAbsentException"

-----------------------------------------------------------------------------
(* Claims about the worker threads *)

NoHandles == <<NULL, NULL, NULL>>

\* C7: RunThreads called while the workers exist fails its assertion and
\* creates no worker; ShutdownThreads called while they do not exist fails
\* its assertion and shuts down and joins nothing.
C7_MisuseIsFatal ==
  /\ (call.op = "RunThreads" /\ call.before # NoHandles) =>
       /\ pc = AssertionFailed
       /\ Handles = call.before
       /\ workers = call.workers
  /\ (call.op = "ShutdownThreads" /\ call.before = NoHandles) =>
       /\ pc = AssertionFailed
       /\ Handles = call.before
       /\ workers = call.workers

\* C7's case: Start, and at once a second Start.
C7_Witness ==
  /\ call.op = "RunThreads"
  /\ call.before = <<1, 2, 3>>
  /\ call.submitted = {}
  /\ pc = AssertionFailed
  /\ Len(workers) = 3

\* Some ShutdownThreads has returned: workers it joined are held no more.
StopHasCompleted ==
  \E w \in DOMAIN workers :
    /\ workers[w].status = "exited"
    /\ w \notin {m_networkThread, m_fileThread, m_backgroundThread}

ThreeRunning ==
  \A kind \in ThreadKinds :
    Handle(kind) # NULL /\ workers[Handle(kind)].status = "running"

\* C8, as claimed: once ShutdownThreads has completed, no later RunThreads
\* brings the three workers back to the running state.
C8_NeverRunningAfterStop == ~(StopHasCompleted /\ ThreeRunning)

\* C8, amended: a worker that has been shut down stays shut down and is
\* never taken up again, and every worker RunThreads installs is a new one;
\* RunThreads after a completed ShutdownThreads is accepted.
C8_ShutDownWorkersStayShutDown ==
  [][ /\ \A w \in DOMAIN workers :
           workers[w].status = "exited" =>
             (w \in DOMAIN workers' /\ workers'[w] = workers[w])
      /\ \A kind \in ThreadKinds :
           (Handle(kind)' # Handle(kind) /\ Handle(kind)' # NULL) =>
             Handle(kind)' \notin DOMAIN workers ]_vars

\* C8's case: Start, Stop, and a Start that is accepted.
C8_Witness ==
  /\ call.op = "RunThreads"
  /\ call.returned
  /\ StopHasCompleted
  /\ ThreeRunning
  /\ pc = Idle

\* C9: when ShutdownThreads returns, every work unit submitted before it was
\* called has run, the three workers have ended with nothing left in their
\* queues, and the three handles are released.
C9_DrainAndJoin ==
  (call.op = "ShutdownThreads" /\ call.returned) =>
    /\ call.submitted \subseteq done
    /\ \A i \in 1..3 :
         /\ workers[call.before[i]].status = "exited"
         /\ workers[call.before[i]].queue = <<>>
    /\ Handles = NoHandles

\* C9's case: work units were still queued when ShutdownThreads was called.
C9_Witness ==
  /\ call.op = "ShutdownThreads"
  /\ call.returned
  /\ Cardinality(call.pending) >= 2
  /\ call.submitted \subseteq done

\* The three handles all hold a worker.
AllHandles ==
  m_networkThread # NULL /\ m_fileThread # NULL /\ m_backgroundThread # NULL

\* C19: between the calls of RunThreads and ShutdownThreads the three
\* handles are all present or all absent: no state in which the controlling
\* thread is in neither call has one or two of them.
C19_HandlesAllOrNone ==
  pc = Idle => (AllHandles \/ Handles = NoHandles)

\* The workers were started, shut down and started again, and a second
\* ShutdownThreads has returned: no handle is left.
C19_Witness ==
  /\ pc = Idle
  /\ call.op = "ShutdownThreads" /\ call.returned
  /\ Len(workers) = 6
  /\ Handles = NoHandles

-----------------------------------------------------------------------------
(* Claims about GetFilesByExt *)

ExtCalled == call.op = "GetFilesByExt"

\* The name ends in the characters of the extension.
EndsIn(name, ext) ==
  /\ Len(ext) <= Len(name)
  /\ SubSeq(name, Len(name) - Len(ext) + 1, Len(name)) = ext

\* C15: GetFilesByExt matches the extension as a literal suffix at the end
\* of the name: for every extension starting with ".", every name in the
\* result ends in exactly the characters of the extension, each of them
\* matched literally.
C15_OnlyNamesEndingInExt ==
  ExtCalled => \A i \in DOMAIN call.out : EndsIn(call.out[i], call.ext)

-----------------------------------------------------------------------------
(* Claims about ErrnoToError and CpuCores *)

ErrorKinds ==
  {ERR_OK, ERR_FILE_DOES_NOT_EXIST, ERR_ACCESS_FAILED,
   ERR_DIRECTORY_NOT_EMPTY, ERR_FILE_ALREADY_EXISTS, ERR_NAME_TOO_LONG,
   ERR_NOT_A_DIRECTORY, ERR_SYMLINK_LOOP, ERR_IO_ERROR, ERR_UNKNOWN}

\* The eight error numbers the mapping names, each with its kind.
NamedErrors ==
  (ENOENT :> ERR_FILE_DOES_NOT_EXIST) @@ (EACCES :> ERR_ACCESS_FAILED)
  @@ (ENOTEMPTY :> ERR_DIRECTORY_NOT_EMPTY)
  @@ (EEXIST :> ERR_FILE_ALREADY_EXISTS)
  @@ (ENAMETOOLONG :> ERR_NAME_TOO_LONG) @@ (ENOTDIR :> ERR_NOT_A_DIRECTORY)
  @@ (ELOOP :> ERR_SYMLINK_LOOP) @@ (EIO :> ERR_IO_ERROR)

ErrnoCalled == call.op = "ErrnoToError"

\* C12: ErrnoToError is a total, fixed mapping.  Each of the eight error
\* numbers it names gives its own kind, every other error number gives
\* ERR_UNKNOWN, so every error number gives exactly one kind; and the call
\* changes nothing: the error number and every other part of the state are
\* after the call what they were before it.
C12_ErrnoToErrorIsTotalAndFixed ==
  /\ [](ErrnoCalled =>
          /\ call.res \in ErrorKinds
          /\ errno \in DOMAIN NamedErrors => call.res = NamedErrors[errno]
          /\ errno \notin DOMAIN NamedErrors => call.res = ERR_UNKNOWN)
  /\ [][call = NoCall /\ call'.op = "ErrnoToError" =>
          UNCHANGED <<walkVars, osVars, dirVars, disk, workerVars>>]_vars

\* The mapping has been applied to ELOOP and gave ERR_SYMLINK_LOOP.
C12_Witness == ErrnoCalled /\ errno = ELOOP /\ call.res = ERR_SYMLINK_LOOP

CoresCalled == call.op = "CpuCores"

\* C16: CpuCores never returns 0.  It returns the hardware's count when
\* that is positive, and 1 when the hardware query reports 0.
C16_CpuCoresAtLeastOne ==
  CoresCalled =>
    /\ call.res # 0
    /\ hardware_concurrency > 0 => call.res = hardware_concurrency
    /\ hardware_concurrency = 0 => call.res = 1

\* The hardware query reported 0 and CpuCores returned 1.
C16_Witness == CoresCalled /\ hardware_concurrency = 0 /\ call.res = 1

====
